---- MODULE Spec2Model ----
(***************************************************************************)
(* The allocation-and-repair pipeline of src/main.rs:                      *)
(*   get_books_in_days -> get_chapters_dates_by_length -> adjust_dates.    *)
(*                                                                         *)
(* Dates are day numbers counted from the start date (Start = 0).          *)
(* f32/f64 quantities are exact rationals <<numerator, denominator>> with  *)
(* a positive denominator; floating-point rounding error is not modelled.  *)
(* Vec indices keep the source's 0-based values; a TLA+ sequence is        *)
(* 1-based, so v[i] of the source is v[i + 1] here.                        *)
(***************************************************************************)
EXTENDS Integers, Sequences, FiniteSets, TLC

VARIABLES
    pc,                     \* position of main's run
    bible_data,             \* Vec<ChapterData>, one element per book
    chapter_data,           \* Vec<ChapterData>, one element per chapter
    duration,               \* main: duration
    end,                    \* main: end_date
    titles_chapters_days,   \* result of get_books_in_days
    title_chapters_dates,   \* get_chapters_dates_by_length: the schedule
    current_date,           \* get_chapters_dates_by_length: current_date
    g,                      \* index of the day-group the for loop is at
    low, high, tuner,       \* the binary search of the current day-group
    new_tcds,               \* adjust_dates: new_tcds
    num_days,               \* adjust_dates: num_days
    i,                      \* adjust_dates: index of the running for loop
    loop_end,               \* adjust_dates: end of the running for range
    days_between,           \* adjust_dates: days_between
    catchup_day_count       \* adjust_dates: catchup_day_count

vars == <<pc, bible_data, chapter_data, duration, end, titles_chapters_days,
          title_chapters_dates, current_date, g, low, high, tuner,
          new_tcds, num_days, i, loop_end, days_between, catchup_day_count>>

(***************************************************************************)
(* Bounds of the model.                                                    *)
(***************************************************************************)
MaxBooks == 5       \* books in a corpus of several books
MaxBookChap == 3    \* chapters of a book in a corpus of several books
MaxChap == 4        \* chapters of the book of a one-book corpus
MaxWord == 3        \* words of a chapter of a one-book corpus
MaxDays == 7        \* days from the start date to the end date

(***************************************************************************)
(* Helpers.                                                                *)
(***************************************************************************)
Max(a, b) == IF a >= b THEN a ELSE b

Last(s) == s[Len(s)]

Range(s) == {s[k] : k \in 1..Len(s)}

RECURSIVE SumSeq(_)
SumSeq(s) == IF s = <<>> THEN 0 ELSE Head(s) + SumSeq(Tail(s))

\* Exact rationals <<n, d>>, d > 0, standing for the f32 and f64 values.
RatGT(x, y) == x[1] * y[2] > y[1] * x[2]

RatGE(x, y) == x[1] * y[2] >= y[1] * x[2]

RatAdd(x, y) ==
    IF x[2] = y[2] THEN <<x[1] + y[1], x[2]>>
    ELSE IF x[1] = 0 THEN y
    ELSE IF y[1] = 0 THEN x
    ELSE <<x[1] * y[2] + y[1] * x[2], x[2] * y[2]>>

\* f32::floor and f32::round (half away from zero) of a value >= 0, as i32
RatFloor(x) == x[1] \div x[2]

RatRound(x) == (2 * x[1] + x[2]) \div (2 * x[2])

(***************************************************************************)
(* The corpus.  bible.csv is read through get_data_combined for a list of  *)
(* book indexes; a book is here its title and the word lengths of its      *)
(* chapters, chapter k being the k-th row of the book.                     *)
(***************************************************************************)
Start == 0

Canon == <<"Zechariah", "Malachi", "Matthew", "Mark", "Luke", "John">>

\* main's book_indexes: a range of indexes, or a range chained with itself
IndexRange(s, n) == [k \in 1..n |-> s + k - 1]

BookIndexes ==
    {IndexRange(s, n) : s \in 1..Len(Canon), n \in 1..MaxBooks}
    \cup {IndexRange(s, n) \o IndexRange(s, n) : s \in 1..Len(Canon), n \in 1..MaxBooks}

ValidIndexes ==
    {ix \in BookIndexes : Len(ix) <= MaxBooks /\ \A k \in 1..Len(ix) : ix[k] <= Len(Canon)}

\* the rows of one book: every chapter of a book of a several-book corpus
\* has one word
UniformLens(n) == [c \in 1..n |-> 1]

SeveralBooks ==
    UNION {{[k \in 1..Len(ix) |-> [title |-> Canon[ix[k]], lens |-> UniformLens(f[ix[k]])]]
              : f \in [Range(ix) -> 1..MaxBookChap]}
           : ix \in ValidIndexes}

OneBook ==
    UNION {{<<[title |-> Canon[b], lens |-> l]>> : l \in [1..n -> 1..MaxWord]}
           : b \in {3}, n \in 1..MaxChap}

Corpora == SeveralBooks \cup OneBook

\* Plans of two months: four short books of one-word chapters, then one
\* book of nine chapters read six times over (a chained index).  With 45 days
\* or more a day share of 1.5 is no longer above duration / 30 and is
\* rounded to the nearest whole.
ShortChapters == 1..3

LongBook == [title |-> Canon[6], lens |-> [c \in 1..9 |-> 5]]

LongCorpora ==
    {[k \in 1..4 |-> [title |-> Canon[k], lens |-> UniformLens(f[k])]]
     \o [k \in 1..6 |-> LongBook]
       : f \in [1..4 -> ShortChapters]}

LongEnds == {Start + 59, Start + 60, Start + 61}

\* a corpus and an end date
Plans ==
    (Corpora \X ((Start + 1)..(Start + MaxDays))) \cup (LongCorpora \X LongEnds)

RECURSIVE chapter_rows(_, _)
chapter_rows(book, k) ==
    IF k > Len(book.lens) THEN <<>>
    ELSE <<[title |-> book.title, chapters |-> k, length |-> book.lens[k]]>>
         \o chapter_rows(book, k + 1)

\* accumulate = TRUE: one element per book, its chapters counted and its
\* lengths summed; accumulate = FALSE: one element per chapter row
RECURSIVE get_data_combined(_, _)
get_data_combined(books, accumulate) ==
    IF books = <<>> THEN <<>>
    ELSE (IF accumulate
          THEN <<[title |-> Head(books).title,
                  chapters |-> Len(Head(books).lens),
                  length |-> SumSeq(Head(books).lens)]>>
          ELSE chapter_rows(Head(books), 1))
         \o get_data_combined(Tail(books), accumulate)

get_duration(start, e) == e - start

(***************************************************************************)
(* get_books_in_days and push_new_element                                  *)
(***************************************************************************)
RECURSIVE SumChapters(_)
SumChapters(data) ==
    IF data = <<>> THEN 0 ELSE Head(data).chapters + SumChapters(Tail(data))

RECURSIVE SumLength(_)
SumLength(data) ==
    IF data = <<>> THEN 0 ELSE Head(data).length + SumLength(Tail(data))

rounded_days(days, dur) ==
    LET rdays_threshold == <<dur, 30>>
        r == IF RatGT(days, rdays_threshold) THEN RatFloor(days) ELSE RatRound(days)
    IN Max(r, 1)

push_new_element(result, titles, chapters, days, dur) ==
    Append(result, [titles |-> titles, chapters |-> chapters,
                    days |-> rounded_days(days, dur)])

NoTemp(result) ==
    [result |-> result, temp_titles |-> <<>>, temp_chapters |-> 0, temp_days |-> <<0, 1>>]

\* the body of the for loop over bible_data, for one book
book_step(st, book, dur, total_word_count) ==
    LET days == <<book.length * dur, total_word_count>>
    IN IF RatGE(days, <<66, 100>>)
       THEN LET flushed ==
                    IF st.temp_titles # <<>>
                    THEN push_new_element(st.result, st.temp_titles,
                                          st.temp_chapters, st.temp_days, dur)
                    ELSE st.result
            IN NoTemp(push_new_element(flushed, <<book.title>>, book.chapters, days, dur))
       ELSE LET acc == [st EXCEPT !.temp_titles = Append(@, book.title),
                                  !.temp_chapters = @ + book.chapters,
                                  !.temp_days = RatAdd(@, days)]
            IN IF RatGE(acc.temp_days, <<1, 1>>)
               THEN NoTemp(push_new_element(acc.result, acc.temp_titles,
                                            acc.temp_chapters, acc.temp_days, dur))
               ELSE acc

RECURSIVE books_loop(_, _, _, _)
books_loop(st, data, dur, total_word_count) ==
    IF data = <<>> THEN st
    ELSE books_loop(book_step(st, Head(data), dur, total_word_count),
                    Tail(data), dur, total_word_count)

\* a variant of over_allocation that also refuses a budget equal to the chapters
over_allocation_at_equal(data, dur) == dur >= SumChapters(data)

\* the check that opens get_books_in_days
over_allocation(data, dur) == dur > SumChapters(data)

\* a variant of get_books_in_days that forgets the books left in temp_titles
get_books_in_days_no_flush(data, dur) ==
    books_loop(NoTemp(<<>>), data, dur, SumLength(data)).result

\* the value get_books_in_days returns when it does not panic
get_books_in_days(data, dur) ==
    LET st == books_loop(NoTemp(<<>>), data, dur, SumLength(data))
    IN IF st.temp_titles # <<>>
       THEN push_new_element(st.result, st.temp_titles, st.temp_chapters,
                             st.temp_days, dur)
       ELSE st.result

(***************************************************************************)
(* get_chapters_dates_by_length                                            *)
(***************************************************************************)
\* the rows of `title`, up to the row of its last chapter
RECURSIVE load_chapters(_, _, _)
load_chapters(rows, title, last_chapter) ==
    IF rows = <<>> THEN <<>>
    ELSE IF Head(rows).title = title
         THEN IF Head(rows).chapters = last_chapter
              THEN <<Head(rows)>>
              ELSE <<Head(rows)>> \o load_chapters(Tail(rows), title, last_chapter)
         ELSE load_chapters(Tail(rows), title, last_chapter)

\* (average_words_per_day - current_group_total_words) / average_words_per_day > tuner
\* with average_words_per_day = total_words / book_days
keeps_accumulating(average_words_per_day, current_group_total_words, t) ==
    LET total_words == average_words_per_day[1]
        book_days == average_words_per_day[2]
    IN (total_words - book_days * current_group_total_words) * t[2] > t[1] * total_words

\* the for loop over the chapters, and the push of the remaining chapters
RECURSIVE scan_chapters(_, _, _, _, _, _)
scan_chapters(chapters, average, t, datasets, group_words, chapter_numbers) ==
    IF chapters = <<>>
    THEN IF chapter_numbers # <<>> THEN Append(datasets, chapter_numbers) ELSE datasets
    ELSE LET current_group_total_words == group_words + Head(chapters).length
             numbers == Append(chapter_numbers, Head(chapters).chapters)
         IN IF keeps_accumulating(average, current_group_total_words, t)
            THEN scan_chapters(Tail(chapters), average, t, datasets,
                               current_group_total_words, numbers)
            ELSE scan_chapters(Tail(chapters), average, t,
                               Append(datasets, numbers), 0, <<>>)

group_chapters(chapters, average_words_per_day, t) ==
    scan_chapters(chapters, average_words_per_day, t, <<>>, 0, <<>>)

\* a variant of dataset_entry that takes the dataset's first chapter
dataset_entry_first(titles, dataset, date) ==
    [titles |-> titles, chapters |-> Head(dataset), date |-> date]

\* the entry of one dataset: its chapters value is the dataset's last chapter
dataset_entry(titles, dataset, date) ==
    [titles |-> titles, chapters |-> Last(dataset), date |-> date]

\* one entry per dataset; stops at the assert that fails
RECURSIVE assign_datasets(_, _, _, _, _)
assign_datasets(datasets, titles, tcds, date, e) ==
    IF datasets = <<>> THEN [tcds |-> tcds, date |-> date, ok |-> TRUE]
    ELSE LET pushed == Append(tcds, dataset_entry(titles, Head(datasets), date))
         IN IF date + 1 <= e
            THEN assign_datasets(Tail(datasets), titles, pushed, date + 1, e)
            ELSE [tcds |-> pushed, date |-> date + 1, ok |-> FALSE]

\* (low + high) / 2.0 of two dyadic rationals
midpoint(lo, hi) ==
    LET d == Max(lo[2], hi[2])
    IN <<lo[1] * (d \div lo[2]) + hi[1] * (d \div hi[2]), 2 * d>>

\* The groups of a scan depend on the threshold t only through the integer
\* part of t * total_words: (total_words - book_days * words) is an integer,
\* so it exceeds t * total_words exactly when it exceeds the integer part.
\* Every threshold of [lo, hi] therefore scans like one of these.
thresholds(total_words, lo, hi) ==
    {<<p, total_words>> :
        p \in ((lo[1] * total_words) \div lo[2])..((hi[1] * total_words) \div hi[2])}

some_threshold(chapters, average_words_per_day, lo, hi) ==
    \E t \in thresholds(average_words_per_day[1], lo, hi) :
        Len(group_chapters(chapters, average_words_per_day, t)) = average_words_per_day[2]

books_at(k) == titles_chapters_days[k + 1]

book_chapters(books) == load_chapters(chapter_data, books.titles[1], books.chapters)

book_average(books) ==
    <<SumLength(book_chapters(books)), books.days>>

(***************************************************************************)
(* The run of main for one corpus and one date range.                      *)
(***************************************************************************)
Init ==
    /\ pc = "get_books_in_days"
    /\ \E plan \in Plans :
          /\ bible_data = get_data_combined(plan[1], TRUE)
          /\ chapter_data = get_data_combined(plan[1], FALSE)
          /\ end = plan[2]
    /\ duration = get_duration(Start, end)
    /\ titles_chapters_days = <<>>
    /\ title_chapters_dates = <<>>
    /\ current_date = Start
    /\ g = 0
    /\ low = <<0, 1>>
    /\ high = <<1, 1>>
    /\ tuner = <<0, 1>>
    /\ new_tcds = <<>>
    /\ num_days = 0
    /\ i = 0
    /\ loop_end = 0
    /\ days_between = 0
    /\ catchup_day_count = 0

search_vars == <<low, high, tuner>>

repair_vars == <<new_tcds, num_days, i, loop_end, days_between, catchup_day_count>>

input_vars == <<bible_data, chapter_data, duration, end>>

GetBooksInDays ==
    /\ pc = "get_books_in_days"
    /\ IF over_allocation(bible_data, duration)
       THEN /\ pc' = "panic_OverAllocation"
            /\ UNCHANGED titles_chapters_days
       ELSE /\ pc' = "assign"
            /\ titles_chapters_days' = get_books_in_days(bible_data, duration)
    /\ UNCHANGED <<input_vars, title_chapters_dates, current_date, g,
                   search_vars, repair_vars>>

\* the for loop over titles_chapters_days, up to the binary search
AssignGroup ==
    /\ pc = "assign"
    /\ g < Len(titles_chapters_days)
    /\ LET books == books_at(g)
       IN IF books.chapters < books.days
          THEN /\ pc' = "panic_InsufficientChapters"
               /\ UNCHANGED <<title_chapters_dates, current_date, g, search_vars>>
          ELSE IF books.days = 1
          THEN /\ title_chapters_dates' =
                      Append(title_chapters_dates,
                             [titles |-> books.titles, chapters |-> books.chapters,
                              date |-> current_date])
               /\ current_date' = current_date + 1
               /\ IF current_date + 1 <= end
                  THEN pc' = "assign" /\ g' = g + 1
                  ELSE pc' = "panic_DateOverflow" /\ g' = g
               /\ UNCHANGED search_vars
          ELSE IF Len(books.titles) # 1
          THEN /\ pc' = "panic_MultipleBooks"
               /\ UNCHANGED <<title_chapters_dates, current_date, g, search_vars>>
          ELSE /\ pc' = "bisect"
               /\ low' = <<0, 1>>
               /\ high' = <<1, 1>>
               /\ tuner' = <<0, 1>>
               /\ UNCHANGED <<title_chapters_dates, current_date, g>>
    /\ UNCHANGED <<input_vars, titles_chapters_days, repair_vars>>

\* one iteration of the binary search loop
Bisect ==
    /\ pc = "bisect"
    /\ LET books == books_at(g)
           chapters == book_chapters(books)
           average_words_per_day == book_average(books)
           datasets == group_chapters(chapters, average_words_per_day, tuner)
       IN /\ some_threshold(chapters, average_words_per_day, low, high)
          /\ IF Len(datasets) = books.days
             THEN LET r == assign_datasets(datasets, books.titles,
                                           title_chapters_dates, current_date, end)
                  IN /\ title_chapters_dates' = r.tcds
                     /\ current_date' = r.date
                     /\ IF r.ok
                        THEN pc' = "assign" /\ g' = g + 1
                        ELSE pc' = "panic_DateOverflow" /\ g' = g
                     /\ UNCHANGED search_vars
             ELSE /\ low' = IF Len(datasets) < books.days THEN tuner ELSE low
                  /\ high' = IF Len(datasets) < books.days THEN high ELSE tuner
                  /\ tuner' = midpoint(low', high')
                  /\ UNCHANGED <<pc, title_chapters_dates, current_date, g>>
    /\ UNCHANGED <<input_vars, titles_chapters_days, repair_vars>>

\* No threshold between low and high gives book_days groups, and tuner never
\* leaves [low, high]: the loop has no exit from here and runs forever.
BisectForever ==
    /\ pc = "bisect"
    /\ ~some_threshold(book_chapters(books_at(g)), book_average(books_at(g)), low, high)
    /\ pc' = "bisect_forever"
    /\ UNCHANGED <<input_vars, titles_chapters_days, title_chapters_dates,
                   current_date, g, search_vars, repair_vars>>

(***************************************************************************)
(* adjust_dates and insert_new_element                                     *)
(***************************************************************************)
CatchUp == "Catch-up day"

\* a variant of insert_new_element that leaves the later dates as they are
insert_new_element_no_shift(tcds, k, title, chapters) ==
    SubSeq(tcds, 1, k + 1)
    \o <<[titles |-> <<title>>, chapters |-> chapters, date |-> tcds[k + 2].date]>>
    \o SubSeq(tcds, k + 2, Len(tcds))

insert_new_element(tcds, k, title, chapters) ==
    LET new_element == [titles |-> <<title>>, chapters |-> chapters,
                        date |-> tcds[k + 2].date]
        inserted == SubSeq(tcds, 1, k + 1) \o <<new_element>>
                    \o SubSeq(tcds, k + 2, Len(tcds))
    IN [j \in 1..Len(inserted) |->
          IF j >= k + 3 THEN [inserted[j] EXCEPT !.date = @ + 1] ELSE inserted[j]]

contains(titles, title) == \E k \in 1..Len(titles) : titles[k] = title

\* a variant of split_index that takes the first entry with several titles
split_index_first(tcds) ==
    LET multi == {k \in 1..Len(tcds) : Len(tcds[k].titles) > 1}
    IN IF multi = {} THEN -1
       ELSE (CHOOSE k \in multi : \A m \in multi : k <= m) - 1

\* the index (0-based) of the entry the split works on: of the entries with
\* several titles, the last of those with the most chapters (max_by_key);
\* -1 when no entry has several titles
split_index(tcds) ==
    LET multi == {k \in 1..Len(tcds) : Len(tcds[k].titles) > 1}
    IN IF multi = {} THEN -1
       ELSE (CHOOSE k \in multi :
                \A m \in multi : \/ tcds[m].chapters < tcds[k].chapters
                                 \/ (tcds[m].chapters = tcds[k].chapters /\ m <= k)) - 1

\* chapters of the first element of bible_data with this title
title_chapters(data, title) ==
    data[CHOOSE k \in 1..Len(data) :
            /\ data[k].title = title
            /\ \A m \in 1..(k - 1) : data[m].title # title].chapters

\* remove the entry at index, insert one entry per title, shift the rest
split_element(tcds, data, index) ==
    LET element == tcds[index + 1]
        titles == element.titles
        pieces == [k \in 1..Len(titles) |->
                     [titles |-> <<titles[k]>>,
                      chapters |-> title_chapters(data, titles[k]),
                      date |-> element.date + (k - 1)]]
        rest == SubSeq(tcds, index + 2, Len(tcds))
    IN SubSeq(tcds, 1, index) \o pieces
       \o [j \in 1..Len(rest) |-> [rest[j] EXCEPT !.date = @ + (Len(titles) - 1)]]

\* adjust_dates up to the first for loop
AdjustDates ==
    /\ pc = "assign"
    /\ g = Len(titles_chapters_days)
    /\ new_tcds' = title_chapters_dates
    /\ LET last_date == IF title_chapters_dates # <<>>
                        THEN Last(title_chapters_dates).date ELSE end
       IN /\ num_days' = end - last_date
          /\ IF end - last_date > 0
             THEN /\ pc' = "seam"
                  /\ i' = 0
                  /\ loop_end' = Len(title_chapters_dates) - 1
             ELSE /\ pc' = "tail"
                  /\ UNCHANGED <<i, loop_end>>
    /\ UNCHANGED <<input_vars, titles_chapters_days, title_chapters_dates,
                   current_date, g, search_vars, days_between, catchup_day_count>>

\* one iteration of the Malachi / Matthew loop, or its end
Seam ==
    /\ pc = "seam"
    /\ IF i < loop_end
       THEN /\ new_tcds' =
                   IF /\ contains(new_tcds[i + 1].titles, "Malachi")
                      /\ contains(new_tcds[i + 2].titles, "Matthew")
                   THEN insert_new_element(new_tcds, i, CatchUp, 0)
                   ELSE new_tcds
            /\ i' = i + 1
            /\ UNCHANGED <<pc, num_days>>
       ELSE /\ num_days' = num_days - 1
            /\ pc' = "tail"
            /\ UNCHANGED <<new_tcds, i>>
    /\ UNCHANGED <<input_vars, titles_chapters_days, title_chapters_dates,
                   current_date, g, search_vars, loop_end, days_between,
                   catchup_day_count>>

\* the catch-up day at the end of the reading
TailCatchUp ==
    /\ pc = "tail"
    /\ IF num_days > 0
       THEN /\ new_tcds' = Append(new_tcds, [titles |-> <<CatchUp>>, chapters |-> 0,
                                             date |-> Last(new_tcds).date + 1])
            /\ num_days' = num_days - 1
       ELSE UNCHANGED <<new_tcds, num_days>>
    /\ pc' = "split"
    /\ UNCHANGED <<input_vars, titles_chapters_days, title_chapters_dates,
                   current_date, g, search_vars, i, loop_end, days_between,
                   catchup_day_count>>

\* one iteration of the while loop that splits the combined readings, or its end
Split ==
    /\ pc = "split"
    /\ IF num_days > 1 /\ split_index(new_tcds) >= 0
       THEN /\ new_tcds' = split_element(new_tcds, bible_data, split_index(new_tcds))
            /\ num_days' = num_days - Len(new_tcds[split_index(new_tcds) + 1].titles)
            /\ UNCHANGED pc
       ELSE /\ pc' = "even"
            /\ UNCHANGED <<new_tcds, num_days>>
    /\ UNCHANGED <<input_vars, titles_chapters_days, title_chapters_dates,
                   current_date, g, search_vars, i, loop_end, days_between,
                   catchup_day_count>>

\* the days that remain, and the set-up of the last for loop
Even ==
    /\ pc = "even"
    /\ LET first_date == IF new_tcds # <<>> THEN new_tcds[1].date ELSE end
           last_date == IF new_tcds # <<>> THEN Last(new_tcds).date ELSE end
           n == end - last_date
       IN /\ num_days' = n
          /\ IF n > 0
             THEN /\ days_between' = (last_date - first_date) \div (n + 1)
                  /\ catchup_day_count' = 1
                  /\ i' = 0
                  /\ loop_end' = Len(new_tcds) - 1
                  /\ pc' = "even_loop"
             ELSE /\ pc' = "done"
                  /\ UNCHANGED <<days_between, catchup_day_count, i, loop_end>>
    /\ UNCHANGED <<input_vars, titles_chapters_days, title_chapters_dates,
                   current_date, g, search_vars, new_tcds>>

\* one iteration of the loop that spreads the catch-up days, or its end
EvenLoop ==
    /\ pc = "even_loop"
    /\ IF i < loop_end
       THEN /\ IF /\ i > days_between * catchup_day_count
                  /\ new_tcds[i + 1].titles # new_tcds[i + 2].titles
               THEN /\ new_tcds' = insert_new_element(new_tcds, i, CatchUp, 0)
                    /\ catchup_day_count' = catchup_day_count + 1
               ELSE UNCHANGED <<new_tcds, catchup_day_count>>
            /\ i' = i + 1
            /\ UNCHANGED pc
       ELSE /\ pc' = "done"
            /\ UNCHANGED <<new_tcds, catchup_day_count, i>>
    /\ UNCHANGED <<input_vars, titles_chapters_days, title_chapters_dates,
                   current_date, g, search_vars, num_days, loop_end, days_between>>

Next ==
    \/ GetBooksInDays
    \/ AssignGroup
    \/ Bisect
    \/ BisectForever
    \/ AdjustDates
    \/ Seam
    \/ TailCatchUp
    \/ Split
    \/ Even
    \/ EvenLoop

Spec == Init /\ [][Next]_vars

(***************************************************************************)
(* Properties                                                              *)
(***************************************************************************)
RECURSIVE SumDays(_)
SumDays(groups) ==
    IF groups = <<>> THEN 0 ELSE Head(groups).days + SumDays(Tail(groups))

RECURSIVE AllTitles(_)
AllTitles(groups) ==
    IF groups = <<>> THEN <<>> ELSE Head(groups).titles \o AllTitles(Tail(groups))

Allocated == pc \notin {"get_books_in_days", "panic_OverAllocation"}

\* the entries the assigner emitted for day-group k (1-based), once the
\* for loop has passed it
GroupEntries(k) ==
    LET before == SumDays(SubSeq(titles_chapters_days, 1, k - 1))
    IN SubSeq(title_chapters_dates, before + 1, before + titles_chapters_days[k].days)

\* the chapters each entry adds to the one before it
Increments(entries) ==
    [k \in 1..Len(entries) |->
        entries[k].chapters - (IF k = 1 THEN 0 ELSE entries[k - 1].chapters)]

CatchUpCount(tcds) == Cardinality({k \in 1..Len(tcds) : tcds[k].titles = <<CatchUp>>})

HasCombined(tcds) == \E k \in 1..Len(tcds) : Len(tcds[k].titles) > 1

Contiguous(tcds) ==
    \/ tcds = <<>>
    \/ /\ tcds[1].date = Start
       /\ \A k \in 1..(Len(tcds) - 1) : tcds[k + 1].date = tcds[k].date + 1

\* C1: when adjust_dates returns, the date of the last entry is not later
\* than the end date.
C1_FinalDateWithinEnd ==
    pc = "done" => Last(new_tcds).date <= end

\* C2: when adjust_dates returns for a day budget below the total chapter
\* count, the last entry is dated exactly on the end date.
C2_FinalDateIsEnd ==
    (pc = "done" /\ duration < SumChapters(bible_data))
        => Last(new_tcds).date = end

\* C3: the entries emitted for a day-group of one book are one per day of the
\* group, carry the book's title, have strictly increasing chapters values
\* that start at 1 or more and end at the book's chapter count, so that the
\* chapters added per day are positive and sum to the chapter count.
C3_BookChaptersCovered ==
    \A k \in 1..g :
        LET books == titles_chapters_days[k]
            entries == GroupEntries(k)
        IN Len(books.titles) = 1 =>
              /\ Len(entries) = books.days
              /\ \A e \in 1..Len(entries) :
                    /\ entries[e].titles = books.titles
                    /\ Increments(entries)[e] >= 1
              /\ Last(entries).chapters = title_chapters(bible_data, books.titles[1])
              /\ SumSeq(Increments(entries)) = title_chapters(bible_data, books.titles[1])

\* C3 witness: a book of four chapters of unequal length was emitted over
\* three days
C3_Witness ==
    /\ pc = "assign"
    /\ \E k \in 1..g :
          /\ titles_chapters_days[k].days = 3
          /\ titles_chapters_days[k].chapters = 4
          /\ GroupEntries(k)[1].chapters = 2

\* C4: for the book and day count the binary search is entered with, some
\* threshold of [0, 1] makes the scan give exactly book_days groups.
C4_ThresholdExists ==
    pc = "bisect" =>
        some_threshold(book_chapters(books_at(g)), book_average(books_at(g)),
                       <<0, 1>>, <<1, 1>>)

\* C5: the binary search never iterates forever.
C5_BisectionEnds ==
    pc # "bisect_forever"

\* C6: get_books_in_days panics exactly when the day budget exceeds the sum
\* of the chapter counts, and then no day-group and no entry was produced.
C6_OverAllocation ==
    /\ pc # "get_books_in_days" =>
          (pc = "panic_OverAllocation" <=> duration > SumChapters(bible_data))
    /\ pc = "panic_OverAllocation" =>
          /\ titles_chapters_days = <<>>
          /\ title_chapters_dates = <<>>
          /\ new_tcds = <<>>

\* C6 witness: the allocator refused a corpus of several books
C6_Witness ==
    /\ pc = "panic_OverAllocation"
    /\ Len(bible_data) > 1
    /\ duration = SumChapters(bible_data) + 1

\* C7: the days of the day-groups get_books_in_days returns sum to at most
\* the day budget.
C7_DaysWithinBudget ==
    Allocated => SumDays(titles_chapters_days) <= duration

\* C8: the assigner fails with the date assert only when the day-groups need
\* an entry dated after the end date; an assignment whose last entry is
\* dated on the end date completes.
C8_OverflowOnlyPastEnd ==
    pc = "panic_DateOverflow" =>
        Start + SumDays(titles_chapters_days) - 1 > end

\* C9: the titles of the day-groups, concatenated in order, are the titles of
\* the books in corpus order, and the chapters of each day-group is the sum
\* of the chapter counts of its books.
C9_CoversBooksInOrder ==
    Allocated =>
        /\ AllTitles(titles_chapters_days) = [k \in 1..Len(bible_data) |-> bible_data[k].title]
        /\ \A k \in 1..Len(titles_chapters_days) :
              LET before == Len(AllTitles(SubSeq(titles_chapters_days, 1, k - 1)))
                  n == Len(titles_chapters_days[k].titles)
              IN /\ n >= 1
                 /\ titles_chapters_days[k].chapters =
                        SumChapters(SubSeq(bible_data, before + 1, before + n))

\* C9 witness: a combined day-group in the middle and one flushed at the end
C9_Witness ==
    /\ pc = "assign"
    /\ Len(titles_chapters_days) >= 3
    /\ Len(Last(titles_chapters_days).titles) > 1
    /\ \E k \in 1..(Len(titles_chapters_days) - 1) :
          Len(titles_chapters_days[k].titles) > 1

\* C10: the schedule of the assigner, and the schedule under repair after
\* every step of adjust_dates, starts on the start date and has consecutive
\* entries one day apart.
C10_DatesConsecutive ==
    /\ Contiguous(title_chapters_dates)
    /\ Contiguous(new_tcds)

\* C10 witness: a repaired schedule in which a combined reading was split,
\* a catch-up day was appended and catch-up days were inserted
C10_Witness ==
    /\ pc = "done"
    /\ HasCombined(title_chapters_dates)
    /\ ~HasCombined(new_tcds)
    /\ Last(new_tcds).titles = <<CatchUp>>
    /\ CatchUpCount(new_tcds) >= 3
    /\ catchup_day_count > 1

\* C11: every day-group the allocator produces with more than one day has
\* exactly one title: a group of several titles always has days = 1.
C11_MergedGroupOneDay ==
    Allocated =>
        \A k \in 1..Len(titles_chapters_days) :
            titles_chapters_days[k].days > 1
                => Len(titles_chapters_days[k].titles) = 1

\* C12: whenever, after the Malachi / Matthew pass, the last entry is dated
\* before the end date, exactly one catch-up entry with chapters 0 is
\* appended, dated one day after the last entry; also when the days left
\* over were 1 and no Malachi / Matthew pair was found.
C12_TailCatchUpAppended ==
    [][(pc = "tail" /\ Last(new_tcds).date < end)
          => new_tcds' = Append(new_tcds, [titles |-> <<CatchUp>>, chapters |-> 0,
                                           date |-> Last(new_tcds).date + 1])]_vars

\* the chapter count c is the chapter count of the book with this title
IsChapterCount(title, c) ==
    /\ \E b \in 1..Len(bible_data) : bible_data[b].title = title
    /\ \A b \in 1..Len(bible_data) :
          bible_data[b].title = title => bible_data[b].chapters = c

\* C13: each iteration of the splitting loop that runs with num_days > 1 and
\* an entry of several titles takes an entry of several titles with the most
\* chapters among them, replaces it by one entry per title, in the order of
\* the titles, with the chapter count of the title's book and consecutive
\* dates from the date of the removed entry, moves every later entry
\* forward by the number of titles less one, and leaves every earlier entry
\* as it was.
C13_SplitLargestCombined ==
    [][(pc = "split" /\ num_days > 1 /\ HasCombined(new_tcds)) =>
         \E k \in 1..Len(new_tcds) :
            LET element == new_tcds[k]
                n == Len(element.titles)
            IN /\ n > 1
               /\ \A m \in 1..Len(new_tcds) :
                     Len(new_tcds[m].titles) > 1
                        => new_tcds[m].chapters <= element.chapters
               /\ Len(new_tcds') = Len(new_tcds) + n - 1
               /\ \A m \in 1..(k - 1) : new_tcds'[m] = new_tcds[m]
               /\ \A t \in 1..n :
                     /\ new_tcds'[k + t - 1].titles = <<element.titles[t]>>
                     /\ IsChapterCount(element.titles[t], new_tcds'[k + t - 1].chapters)
                     /\ new_tcds'[k + t - 1].date = element.date + t - 1
               /\ \A m \in (k + 1)..Len(new_tcds) :
                     new_tcds'[m + n - 1] = [new_tcds[m] EXCEPT !.date = @ + n - 1]
      ]_vars

\* C13 witness: the schedule had two combined readings, the later one with
\* more chapters; the later one has been split into one entry per title on
\* consecutive days and the earlier one is still combined
C13_Witness ==
    /\ pc = "split"
    /\ \E k1, k2 \in 1..Len(title_chapters_dates) :
          LET first == title_chapters_dates[k1]
              second == title_chapters_dates[k2]
          IN /\ k1 < k2
             /\ Len(first.titles) > 1
             /\ Len(second.titles) > 1
             /\ first.chapters < second.chapters
             /\ \E m \in 1..Len(new_tcds) : new_tcds[m].titles = first.titles
             /\ \A m \in 1..Len(new_tcds) : new_tcds[m].titles # second.titles
             /\ \E m \in 1..(Len(new_tcds) - 1) :
                   /\ new_tcds[m].titles = <<second.titles[1]>>
                   /\ new_tcds[m + 1].titles = <<second.titles[2]>>
                   /\ new_tcds[m + 1].date = new_tcds[m].date + 1

====
